---- MODULE Spec2Model ----
(***************************************************************************)
(* Campaign builder: the campaign form (cascading dropdowns, required      *)
(* indicator, schema validation, add-partner modal) and the reference-data *)
(* gateway (partners / third parties endpoints over the database).         *)
(***************************************************************************)
EXTENDS Integers, Sequences, FiniteSets, TLC

VARIABLES
    values,      \* react-hook-form's current field values (_formValues)
    rendered,    \* the field values the last render read through form.watch()
    mounted,     \* the first commit (render + mount effects) has happened
    prev,        \* the four useRef cells prevCampaignType .. prevCostCenter
    lastSet,     \* history: the last user change [field, changed (old # new)]
    errors,      \* formState.errors: field -> message, as set by the last submit
    accepted,    \* history: the records handed to the onSubmit callback
    submits,     \* history: number of submit attempts
    table,       \* the partners and third_parties tables: kind -> set of rows
    nextId,      \* the next id the database hands out
    req,         \* per sender, its request on its way through the endpoint
    issued,      \* history: number of requests issued
    modal,       \* per kind: showPartnerModal / newPartnerName (and third party)
    toast,       \* the last toast shown
    cache,       \* the query cache: kind -> the list the form shows
    fetch,       \* per kind, the list query in flight
    timers,      \* pending setTimeout callbacks of the success handlers
    lookup,      \* the last resolver call: its arguments and what it produced
    auth         \* useMsalAuth: its inputs (build, MSAL state) and its state hooks

formVars == <<values, rendered, mounted, prev, lastSet, errors, accepted, submits>>
gatewayVars == <<table, nextId, req, issued>>
clientVars == <<modal, toast, cache, fetch, timers>>
vars == <<values, rendered, mounted, prev, lastSet, errors, accepted, submits,
          table, nextId, req, issued, modal, toast, cache, fetch, timers,
          lookup, auth>>

----------------------------------------------------------------------------
(* JavaScript values.  Every field value of the model is a string; the two *)
(* sentinels stand for the JavaScript values undefined and null.           *)
Undefined == "<undefined>"
Null == "<null>"

\* JavaScript truthiness of a string-or-undefined-or-null value
Truthy(x) == x # "" /\ x # Undefined /\ x # Null

\* String.prototype.trim on the strings of the model: the strings that carry
\* leading or trailing white space are listed with what trim leaves of them.
Trim(s) ==
    CASE s = " " -> ""
      [] s = "  " -> ""
      [] s = " Acme " -> "Acme"
      [] s = "Acme " -> "Acme"
      [] OTHER -> s

\* Array.prototype.sort() without comparator orders strings by UTF-16 code
\* units; this is that order on the strings of the hierarchy table.
CodeUnitOrder ==
    << "Banner", "Carousel", "Display Ads", "Email Campaign", "Email Newsletter",
       "Engineering", "Engineering Operations", "Engineering Projects",
       "Engineering R&D", "Expandable", "Facebook", "Google", "Google Ads", "Image",
       "Interstitial", "LinkedIn", "Marketing", "Marketing Campaigns",
       "Marketing Content", "Marketing Events", "Native", "Operations",
       "Operations Infrastructure", "Operations Maintenance", "Operations Support",
       "Organic Social", "Paid Social", "Product", "Product Development",
       "Product Research", "Product Support", "Rich Media", "Sales",
       "Sales Activities", "Sales Support", "Sales Training", "Social Media",
       "Standard Banner", "Story", "Text", "Video", "Video Campaign" >>

Rank(s) == CHOOSE i \in 1..Len(CodeUnitOrder) : CodeUnitOrder[i] = s

\* [...list].sort()
SortedCopy(list) == SortSeq(list, LAMBDA a, b : Rank(a) < Rank(b))

Range(seq) == { seq[i] : i \in 1..Len(seq) }

----------------------------------------------------------------------------
(* The hierarchy table                                                     *)

campaignHierarchy ==
    ("Display Ads" :>
        [ sources |-> <<"Google", "Facebook", "LinkedIn">>,
          adTypes |-> ("Google" :> <<"Banner", "Video">>)
                   @@ ("Facebook" :> <<"Image", "Video", "Carousel">>)
                   @@ ("LinkedIn" :> <<"Banner", "Text">>),
          adTypeDetails |-> ("Banner" :> <<"Standard Banner", "Rich Media">>)
                   @@ ("Video" :> <<"Interstitial", "Native">>)
                   @@ ("Image" :> <<"Standard Banner", "Native">>)
                   @@ ("Carousel" :> <<"Rich Media", "Native">>)
                   @@ ("Text" :> <<"Standard Banner">>) ])
 @@ ("Email Campaign" :>
        [ sources |-> <<"Email Newsletter", "Organic Social">>,
          adTypes |-> ("Email Newsletter" :> <<"Text", "Image">>)
                   @@ ("Organic Social" :> <<"Text", "Image", "Video">>),
          adTypeDetails |-> ("Text" :> <<"Standard Banner">>)
                   @@ ("Image" :> <<"Standard Banner", "Rich Media">>)
                   @@ ("Video" :> <<"Native", "Interstitial">>) ])
 @@ ("Google Ads" :>
        [ sources |-> <<"Google", "Paid Social">>,
          adTypes |-> ("Google" :> <<"Banner", "Video", "Text">>)
                   @@ ("Paid Social" :> <<"Image", "Video", "Carousel">>),
          adTypeDetails |-> ("Banner" :> <<"Standard Banner", "Rich Media", "Expandable">>)
                   @@ ("Video" :> <<"Interstitial", "Native">>)
                   @@ ("Text" :> <<"Standard Banner">>)
                   @@ ("Image" :> <<"Standard Banner", "Rich Media">>)
                   @@ ("Carousel" :> <<"Rich Media", "Native">>) ])
 @@ ("Social Media" :>
        [ sources |-> <<"Facebook", "LinkedIn", "Organic Social", "Paid Social">>,
          adTypes |-> ("Facebook" :> <<"Image", "Video", "Carousel", "Story">>)
                   @@ ("LinkedIn" :> <<"Banner", "Text", "Image">>)
                   @@ ("Organic Social" :> <<"Text", "Image", "Video">>)
                   @@ ("Paid Social" :> <<"Image", "Video", "Carousel">>),
          adTypeDetails |-> ("Image" :> <<"Standard Banner", "Rich Media", "Native">>)
                   @@ ("Video" :> <<"Interstitial", "Native">>)
                   @@ ("Carousel" :> <<"Rich Media", "Native">>)
                   @@ ("Story" :> <<"Native">>)
                   @@ ("Banner" :> <<"Standard Banner", "Rich Media">>)
                   @@ ("Text" :> <<"Standard Banner">>) ])
 @@ ("Video Campaign" :>
        [ sources |-> <<"Google", "Facebook", "Paid Social">>,
          adTypes |-> ("Google" :> <<"Video">>)
                   @@ ("Facebook" :> <<"Video", "Story">>)
                   @@ ("Paid Social" :> <<"Video", "Carousel">>),
          adTypeDetails |-> ("Video" :> <<"Interstitial", "Native", "Rich Media">>)
                   @@ ("Story" :> <<"Native">>)
                   @@ ("Carousel" :> <<"Rich Media", "Native">>) ])

\* variant: a cost center without sub-ledgers
costCenterSubLedgers_EmptyCenter ==
    ("Engineering" :> <<"Engineering Projects", "Engineering Operations", "Engineering R&D">>)
 @@ ("Marketing" :> <<"Marketing Campaigns", "Marketing Events", "Marketing Content">>)
 @@ ("Operations" :> <<"Operations Support", "Operations Infrastructure", "Operations Maintenance">>)
 @@ ("Product" :> <<"Product Development", "Product Support", "Product Research">>)
 @@ ("Sales" :> << >>)

costCenterSubLedgers ==
    ("Engineering" :> <<"Engineering Projects", "Engineering Operations", "Engineering R&D">>)
 @@ ("Marketing" :> <<"Marketing Campaigns", "Marketing Events", "Marketing Content">>)
 @@ ("Operations" :> <<"Operations Support", "Operations Infrastructure", "Operations Maintenance">>)
 @@ ("Product" :> <<"Product Development", "Product Support", "Product Research">>)
 @@ ("Sales" :> <<"Sales Activities", "Sales Support", "Sales Training">>)

\* mockData.campaignTypes / mockData.costCenters: Object.keys(...).sort()
campaignTypes == SortedCopy(<<"Display Ads", "Email Campaign", "Google Ads", "Social Media", "Video Campaign">>)
costCenters == SortedCopy(<<"Engineering", "Marketing", "Operations", "Product", "Sales">>)

----------------------------------------------------------------------------
(* The dependent-field resolvers (useMemo bodies)                          *)

\* property names every JavaScript object inherits from Object.prototype
ObjectPrototypeKeys == { "constructor", "toString", "__proto__" }

\* `key in obj`: own keys and inherited ones
In(key, obj) == key \in DOMAIN obj \cup ObjectPrototypeKeys

\* what a resolver produces when its body throws: reading a property of
\* undefined, `in` on undefined, or spreading a value that is not iterable
TypeError == << "<TypeError>" >>

filteredCampaignSources(campaignType) ==
    IF ~Truthy(campaignType) \/ ~In(campaignType, campaignHierarchy)
    THEN << >>
    ELSE IF campaignType \in DOMAIN campaignHierarchy
    THEN SortedCopy(campaignHierarchy[campaignType].sources)
    ELSE TypeError  \* the inherited member has no .sources: [...undefined]

filteredAdTypes(campaignType, campaignSource) ==
    IF ~Truthy(campaignType) \/ ~Truthy(campaignSource)
          \/ ~In(campaignType, campaignHierarchy)
    THEN << >>
    ELSE IF campaignType \notin DOMAIN campaignHierarchy
    THEN TypeError  \* typeData.adTypes is undefined: `in` on undefined
    ELSE IF ~In(campaignSource, campaignHierarchy[campaignType].adTypes)
    THEN << >>
    ELSE IF campaignSource \in DOMAIN campaignHierarchy[campaignType].adTypes
    THEN SortedCopy(campaignHierarchy[campaignType].adTypes[campaignSource])
    ELSE TypeError  \* the inherited member is not iterable

filteredAdTypeDetails(campaignType, adType) ==
    IF ~Truthy(campaignType) \/ ~Truthy(adType)
          \/ ~In(campaignType, campaignHierarchy)
    THEN << >>
    ELSE IF campaignType \notin DOMAIN campaignHierarchy
    THEN TypeError
    ELSE IF ~In(adType, campaignHierarchy[campaignType].adTypeDetails)
    THEN << >>
    ELSE IF adType \in DOMAIN campaignHierarchy[campaignType].adTypeDetails
    THEN SortedCopy(campaignHierarchy[campaignType].adTypeDetails[adType])
    ELSE TypeError

filteredSubLedgers(costCenter) ==
    IF ~Truthy(costCenter) \/ ~In(costCenter, costCenterSubLedgers)
    THEN << >>
    ELSE IF costCenter \in DOMAIN costCenterSubLedgers
    THEN SortedCopy(costCenterSubLedgers[costCenter])
    ELSE TypeError

\* one evaluation of a resolver on arbitrary arguments: `out` is what it
\* returned (or TypeError), `entry` the table's list it read, as the call
\* left it (the sort works on a spread copy)
NoLookup == [ fn |-> "", a |-> "", b |-> "", out |-> << >>, entry |-> << >> ]

\* the strings the resolvers are evaluated on: every string of the table,
\* the empty string, a string the table does not hold and the inherited names
LookupInputs == Range(CodeUnitOrder) \cup { "", "Unknown" } \cup ObjectPrototypeKeys

evaluated(fn, a, b, out, entry) ==
    /\ lookup = NoLookup
    /\ lookup' = [ fn |-> fn, a |-> a, b |-> b, out |-> out, entry |-> entry ]
    /\ UNCHANGED <<formVars, gatewayVars, clientVars, auth>>

LookupSources(campaignType) ==
    evaluated("filteredCampaignSources", campaignType, "",
              filteredCampaignSources(campaignType),
              IF campaignType \in DOMAIN campaignHierarchy
              THEN campaignHierarchy[campaignType].sources ELSE << >>)

LookupAdTypes(campaignType, campaignSource) ==
    evaluated("filteredAdTypes", campaignType, campaignSource,
              filteredAdTypes(campaignType, campaignSource),
              IF /\ campaignType \in DOMAIN campaignHierarchy
                 /\ campaignSource \in DOMAIN campaignHierarchy[campaignType].adTypes
              THEN campaignHierarchy[campaignType].adTypes[campaignSource] ELSE << >>)

LookupAdTypeDetails(campaignType, adType) ==
    evaluated("filteredAdTypeDetails", campaignType, adType,
              filteredAdTypeDetails(campaignType, adType),
              IF /\ campaignType \in DOMAIN campaignHierarchy
                 /\ adType \in DOMAIN campaignHierarchy[campaignType].adTypeDetails
              THEN campaignHierarchy[campaignType].adTypeDetails[adType] ELSE << >>)

LookupSubLedgers(costCenter) ==
    evaluated("filteredSubLedgers", costCenter, "",
              filteredSubLedgers(costCenter),
              IF costCenter \in DOMAIN costCenterSubLedgers
              THEN costCenterSubLedgers[costCenter] ELSE << >>)

----------------------------------------------------------------------------
(* The reference-data gateway: routes, storage and tables                  *)

Kinds == { "partner", "thirdParty" }

\* senders of create requests other than this form (other users' forms, API
\* clients)
Others == { "other1", "other2" }
\* the form's two mutations send under their kind's name
Senders == Others \cup Kinds

\* request bodies other senders post: no name property, or one of these names
PostedNames == { Undefined, "", "  ", "Acme", "acme" }

MaxRequests == 3

NoRow == [ id |-> 0, name |-> "" ]
\* a request slot: op is "create" or "check"; existed is history (the table
\* held the name when the request was issued), and so is thrown (the value the
\* route's try block threw, null when none); status, row and exists are the
\* response, error the message in the body a catch block sent
IdleRequest == [ pc |-> "idle", op |-> "", kind |-> "", name |-> "",
                 existed |-> FALSE, status |-> 0, row |-> NoRow, exists |-> FALSE,
                 thrown |-> Null, error |-> Null ]

NoToast == [ title |-> "", description |-> "" ]

\* the gateway with empty tables, the form's modals closed and its two list
\* queries started
GatewayIdle ==
    /\ table = [ k \in Kinds |-> { } ]
    /\ nextId = 1
    /\ req = [ c \in Senders |-> IdleRequest ]
    /\ issued = 0
    /\ modal = [ k \in Kinds |-> [ show |-> FALSE, newName |-> "" ] ]
    /\ toast = NoToast
    /\ cache = [ k \in Kinds |-> << >> ]
    /\ fetch = [ k \in Kinds |-> [ pc |-> "sent", data |-> << >> ] ]
    /\ timers = { }

\* insertPartnerSchema.parse(req.body): createInsertSchema of a table whose
\* name column is varchar notNull makes name a z.string() -- any string passes
insertPartnerSchema(name) == name # Undefined

\* insertThirdPartySchema.parse(req.body)
insertThirdPartySchema(name) == name # Undefined

\* DatabaseStorage.checkPartnerExists: select ... where name = $1
checkPartnerExists(rows, name) == \E r \in rows : r.name = name

\* DatabaseStorage.checkThirdPartyExists
checkThirdPartyExists(rows, name) == \E r \in rows : r.name = name

\* variant: the partners table without the unique constraint on name
partnersNameUnique_Dropped(rows, name) == FALSE

\* partners.name is declared .unique(): an insert of a name the table holds
\* fails with a unique violation
partnersNameUnique(rows, name) == \E r \in rows : r.name = name

\* third_parties.name is declared .unique()
thirdPartiesNameUnique(rows, name) == \E r \in rows : r.name = name

\* DatabaseStorage.createPartner / createThirdParty: insert ... returning
createRow(id, name) == [ id |-> id, name |-> name ]

schemaAccepts(k, name) ==
    IF k = "partner" THEN insertPartnerSchema(name) ELSE insertThirdPartySchema(name)

storageExists(k, name) ==
    IF k = "partner" THEN checkPartnerExists(table[k], name)
    ELSE checkThirdPartyExists(table[k], name)

uniqueViolation(k, name) ==
    IF k = "partner" THEN partnersNameUnique(table[k], name)
    ELSE thirdPartiesNameUnique(table[k], name)

\* history: the table holds a row with exactly this name
Present(k, name) == \E r \in table[k] : r.name = name

\* a sender other than the form posts {name} (or {}) to a create endpoint
PostCreate(c, k, name) ==
    /\ req[c].pc = "idle"
    /\ issued < MaxRequests
    /\ issued' = issued + 1
    /\ req' = [ req EXCEPT ![c] = [ IdleRequest EXCEPT !.pc = "sent", !.op = "create",
                                      !.kind = k, !.name = name,
                                      !.existed = Present(k, name) ] ]
    /\ UNCHANGED <<table, nextId>>
    /\ UNCHANGED <<formVars, clientVars, lookup, auth>>

\* app.post("/api/partners" | "/api/third-parties"), up to the first await:
\* the body is parsed; a ZodError is an Error and is answered 400
ServerParse(c) ==
    /\ req[c].pc = "sent"
    /\ req[c].op = "create"
    /\ req' = [ req EXCEPT ![c] =
                  IF schemaAccepts(req[c].kind, req[c].name)
                  THEN [ @ EXCEPT !.pc = "check" ]
                  ELSE [ @ EXCEPT !.pc = "done", !.status = 400,
                                  !.thrown = "ZodError: Required",
                                  !.error = "ZodError: Required" ] ]
    /\ UNCHANGED <<table, nextId, issued>>
    /\ UNCHANGED <<formVars, clientVars, lookup, auth>>

\* ... the existence check comes back: 409 when the name exists
ServerCheck(c) ==
    /\ req[c].pc = "check"
    /\ req' = [ req EXCEPT ![c] =
                  IF storageExists(req[c].kind, req[c].name)
                  THEN [ @ EXCEPT !.pc = "done", !.status = 409 ]
                  ELSE [ @ EXCEPT !.pc = "insert" ] ]
    /\ UNCHANGED <<table, nextId, issued>>
    /\ UNCHANGED <<formVars, clientVars, lookup, auth>>

\* ... the insert comes back: 201 with the row, or the database's unique
\* violation, an Error, answered 400
ServerInsert(c) ==
    /\ req[c].pc = "insert"
    /\ IF uniqueViolation(req[c].kind, req[c].name)
       THEN /\ req' = [ req EXCEPT ![c] =
                          [ @ EXCEPT !.pc = "done", !.status = 400,
                                     !.thrown = "error: duplicate key value",
                                     !.error = "error: duplicate key value" ] ]
            /\ UNCHANGED <<table, nextId>>
       ELSE /\ table' = [ table EXCEPT ![req[c].kind] =
                            @ \cup { createRow(nextId, req[c].name) } ]
            /\ nextId' = nextId + 1
            /\ req' = [ req EXCEPT ![c] = [ @ EXCEPT !.pc = "done", !.status = 201,
                                              !.row = createRow(nextId, req[c].name) ] ]
    /\ UNCHANGED issued
    /\ UNCHANGED <<formVars, clientVars, lookup, auth>>

\* the other sender has read its response
TakeResponse(c) ==
    /\ c \in Others
    /\ req[c].pc = "done"
    /\ req' = [ req EXCEPT ![c] = IdleRequest ]
    /\ UNCHANGED <<table, nextId, issued>>
    /\ UNCHANGED <<formVars, clientVars, lookup, auth>>

\* a sender posts {name} (or {}) to a check endpoint
PostCheck(c, k, name) ==
    /\ req[c].pc = "idle"
    /\ issued < MaxRequests
    /\ issued' = issued + 1
    /\ req' = [ req EXCEPT ![c] = [ IdleRequest EXCEPT !.pc = "sent", !.op = "check",
                                      !.kind = k, !.name = name,
                                      !.existed = Present(k, name) ] ]
    /\ UNCHANGED <<table, nextId>>
    /\ UNCHANGED <<formVars, clientVars, lookup, auth>>

\* app.post("/api/partners/check" | "/api/third-parties/check"): 400 without a
\* name, else the answer of the existence check
ServerAnswerCheck(c) ==
    /\ req[c].pc = "sent"
    /\ req[c].op = "check"
    /\ req' = [ req EXCEPT ![c] =
                  IF ~Truthy(req[c].name)
                  THEN [ @ EXCEPT !.pc = "done", !.status = 400,
                                  !.existed = Present(req[c].kind, req[c].name) ]
                  ELSE [ @ EXCEPT !.pc = "done", !.status = 200,
                                  !.exists = storageExists(req[c].kind, req[c].name),
                                  !.existed = Present(req[c].kind, req[c].name) ] ]
    /\ UNCHANGED <<table, nextId, issued>>
    /\ UNCHANGED <<formVars, clientVars, lookup, auth>>


----------------------------------------------------------------------------
(* The draft: useForm's defaultValues                                      *)

StringFields ==
    { "baseUrl", "anchorTag", "campaignType", "campaignSource", "adType",
      "adTypeDetail", "brand1", "brand2", "brand3", "productCategory",
      "productBrand", "campaignOwner", "campaignNotes", "projectReferenceNumber",
      "budget", "industry", "tactic", "costCenter", "subLedger", "partnerName",
      "thirdPartyName" }
DateFields == { "startDate", "endDate" }
BooleanFields == { "targeting", "partnering", "thirdParty" }

\* defaultValues: `initialData?.f || ""` for strings, `|| false` for booleans,
\* the dates as given (possibly undefined)
DefaultValues(initialData) ==
    [ f \in DOMAIN initialData |->
        IF f \in StringFields
        THEN (IF Truthy(initialData[f]) THEN initialData[f] ELSE "")
        ELSE initialData[f] ]

\* initialData absent: every string and date undefined, every flag false
NoInitialData ==
    [ f \in StringFields \cup DateFields \cup BooleanFields |->
        IF f \in BooleanFields THEN FALSE ELSE Undefined ]

\* a complete pre-filled draft
FilledInitialData ==
    [ NoInitialData EXCEPT
        !.baseUrl = "https://example.com",
        !.campaignType = "Display Ads",
        !.campaignSource = "Google",
        !.adType = "Banner",
        !.adTypeDetail = "Standard Banner",
        !.brand1 = "Brand A",
        !.productCategory = "Hardware",
        !.campaignOwner = "Daniel Konig",
        !.startDate = "2025-09-24",
        !.campaignNotes = "launch",
        !.projectReferenceNumber = "1234567",
        !.industry = "Technology",
        !.tactic = "Awareness" ]

\* a draft with every required field filled and every optional one absent
RequiredInitialData == [ FilledInitialData EXCEPT !.adTypeDetail = Undefined ]

\* the cost-center part of the initialData the model starts from
InitialCostCenters == { <<Undefined, Undefined>>,
                        <<Undefined, "Engineering Projects">>,
                        <<"Engineering", "Engineering Projects">>,
                        <<"Engineering", Undefined>>,
                        <<"  ", Undefined>> }

\* the initialData the cascade is explored from
InitialDataSet ==
    { [ base EXCEPT !.costCenter = cc[1], !.subLedger = cc[2] ] :
        base \in { NoInitialData, FilledInitialData },
        cc \in InitialCostCenters }

\* the initialData submission is explored from: the absent one, the complete
\* draft with its cost center, start date and URL varied, and the draft of
\* the required fields alone with the two flags varied
SubmitDataSet ==
    { NoInitialData }
    \cup
    { [ FilledInitialData EXCEPT !.costCenter = cc[1], !.subLedger = cc[2],
                                 !.startDate = d, !.baseUrl = u ] :
        cc \in InitialCostCenters \ { <<"Engineering", "Engineering Projects">> },
        d \in { Undefined, "2025-09-24" },
        u \in { "example.com", "https://example.com" } }
    \cup
    { [ RequiredInitialData EXCEPT !.partnering = p, !.thirdParty = t ] :
        p \in BOOLEAN, t \in BOOLEAN }

----------------------------------------------------------------------------
(* The cascade effects.  Each useEffect body reads the values its render   *)
(* captured (r), the ref cell, and writes through form.setValue.           *)

NoPrev == [ campaignType |-> Null, campaignSource |-> Null,
            adType |-> Null, costCenter |-> Null ]

\* `costCenter || null`
OrNull(x) == IF Truthy(x) THEN x ELSE Null

\* variant: the guard without the first-mount exemption
campaignTypeChanged_NoMountGuard(prevCampaignType, campaignType) ==
    prevCampaignType # campaignType

\* the guard of the campaignType effect
campaignTypeChanged(prevCampaignType, campaignType) ==
    prevCampaignType # Null /\ prevCampaignType # campaignType

\* the guard of the campaignSource effect
campaignSourceChanged(prevCampaignSource, campaignSource) ==
    prevCampaignSource # Null /\ prevCampaignSource # campaignSource

\* the guard of the adType effect
adTypeChanged(prevAdType, adType) ==
    prevAdType # Null /\ prevAdType # adType

\* the guard of the costCenter effect
costCenterChanged(prevCostCenter, costCenter) ==
    prevCostCenter # Null /\ prevCostCenter # OrNull(costCenter)

\* variant: the campaignType effect keeps a campaignSource (and what hangs
\* under it) that the new campaignType also offers
campaignTypeEffect_KeepsValidSource(s, r) ==
    [ values |-> IF /\ campaignTypeChanged(s.prev.campaignType, r.campaignType)
                    /\ s.values.campaignSource \notin
                          Range(filteredCampaignSources(r.campaignType))
                 THEN [ s.values EXCEPT !.campaignSource = "", !.adType = "",
                                        !.adTypeDetail = "" ]
                 ELSE s.values,
      prev |-> [ s.prev EXCEPT !.campaignType = r.campaignType ] ]

\* useEffect(..., [campaignType, form]) on state s = [values, prev]
campaignTypeEffect(s, r) ==
    [ values |-> IF campaignTypeChanged(s.prev.campaignType, r.campaignType)
                 THEN [ s.values EXCEPT !.campaignSource = "", !.adType = "",
                                        !.adTypeDetail = "" ]
                 ELSE s.values,
      prev |-> [ s.prev EXCEPT !.campaignType = r.campaignType ] ]

\* useEffect(..., [campaignSource, form])
campaignSourceEffect(s, r) ==
    [ values |-> IF campaignSourceChanged(s.prev.campaignSource, r.campaignSource)
                 THEN [ s.values EXCEPT !.adType = "", !.adTypeDetail = "" ]
                 ELSE s.values,
      prev |-> [ s.prev EXCEPT !.campaignSource = r.campaignSource ] ]

\* useEffect(..., [adType, form])
adTypeEffect(s, r) ==
    [ values |-> IF adTypeChanged(s.prev.adType, r.adType)
                 THEN [ s.values EXCEPT !.adTypeDetail = "" ]
                 ELSE s.values,
      prev |-> [ s.prev EXCEPT !.adType = r.adType ] ]

\* variant: the costCenter effect records the value and clears nothing
costCenterEffect_NoReset(s, r) ==
    [ values |-> s.values,
      prev |-> [ s.prev EXCEPT !.costCenter = OrNull(r.costCenter) ] ]

\* variant: the costCenter effect clears the ad type detail as well
costCenterEffect_ClearsChain(s, r) ==
    [ values |-> IF costCenterChanged(s.prev.costCenter, r.costCenter)
                 THEN [ s.values EXCEPT !.subLedger = "", !.adTypeDetail = "" ]
                 ELSE s.values,
      prev |-> [ s.prev EXCEPT !.costCenter = OrNull(r.costCenter) ] ]

\* useEffect(..., [costCenter, form])
costCenterEffect(s, r) ==
    [ values |-> IF costCenterChanged(s.prev.costCenter, r.costCenter)
                 THEN [ s.values EXCEPT !.subLedger = "" ]
                 ELSE s.values,
      prev |-> [ s.prev EXCEPT !.costCenter = OrNull(r.costCenter) ] ]

\* React runs an effect after a commit when the component has just mounted or
\* one of its dependencies differs from the previous render's.
DepChanged(field, r) == ~mounted \/ r[field] # rendered[field]

\* the four effects of one commit, in declaration order, on the values r the
\* render captured
RunEffects(r) ==
    LET s0 == [ values |-> values, prev |-> prev ]
        s1 == IF DepChanged("campaignType", r) THEN campaignTypeEffect(s0, r) ELSE s0
        s2 == IF DepChanged("campaignSource", r) THEN campaignSourceEffect(s1, r) ELSE s1
        s3 == IF DepChanged("adType", r) THEN adTypeEffect(s2, r) ELSE s2
        s4 == IF DepChanged("costCenter", r) THEN costCenterEffect(s3, r) ELSE s3
    IN  s4

\* no render is outstanding: what the screen shows is what the form holds
Settled == mounted /\ rendered = values

----------------------------------------------------------------------------
(* campaignFormSchema, as zodResolver applies it at submit                 *)

\* z.string().url(): the strings of the model that `new URL(s)` accepts
AbsoluteUrls == { "https://example.com" }

\* the fields declared z.string().min(1, message), with their messages
MinOneMessage ==
    [ campaignType |-> "Campaign type is required",
      campaignSource |-> "Campaign source is required",
      adType |-> "Ad type is required",
      brand1 |-> "Brand 1 is required",
      productCategory |-> "Product category is required",
      campaignOwner |-> "Campaign owner is required",
      campaignNotes |-> "Campaign notes are required",
      projectReferenceNumber |-> "Project reference number is required",
      industry |-> "Industry is required",
      tactic |-> "Tactic is required" ]

\* fields whose declared type rejects undefined (not .optional())
NonOptional == DOMAIN MinOneMessage \cup { "baseUrl", "startDate" }

\* a value of the wrong type: zod reports invalid_type and the field's parse
\* is aborted
TypeIssue(f, data) == f \in NonOptional /\ data[f] = Undefined

\* a value of the right type that fails a check: the parse goes on (dirty)
CheckIssue(f, data) ==
    /\ ~TypeIssue(f, data)
    /\ \/ f = "baseUrl" /\ data[f] \notin AbsoluteUrls
       \/ f \in DOMAIN MinOneMessage /\ data[f] = ""

FieldMessage(f, data) ==
    IF TypeIssue(f, data)
    THEN (IF f = "startDate" THEN "Start date is required" ELSE "Required")
    ELSE IF f = "baseUrl" THEN "Must be a valid URL"
    ELSE MinOneMessage[f]

\* variant: the refinement demands a sub-ledger whatever the cost center is
subLedgerRefinement_AlwaysRequired(data) ==
    Truthy(data.subLedger) /\ Trim(data.subLedger) # ""

\* the predicate given to .refine
subLedgerRefinement(data) ==
    IF Truthy(data.costCenter) /\ Trim(data.costCenter) # ""
    THEN Truthy(data.subLedger) /\ Trim(data.subLedger) # ""
    ELSE TRUE

\* zod runs a refinement of an object only when the object itself parsed
\* without an aborted field
refinementRuns(data) == \A f \in DOMAIN data : ~TypeIssue(f, data)

\* the violation map (formState.errors) of a draft: path -> message
campaignFormSchema(data) ==
    LET fieldIssues == { f \in DOMAIN data : TypeIssue(f, data) \/ CheckIssue(f, data) }
        refined == IF refinementRuns(data) /\ ~subLedgerRefinement(data)
                   THEN { "subLedger" } ELSE { }
    IN  [ f \in fieldIssues \cup refined |->
            IF f \in fieldIssues THEN FieldMessage(f, data)
            ELSE "Sub Ledger is required when Cost Center is selected" ]

NoErrors == [ f \in { } |-> "" ]

----------------------------------------------------------------------------
(* The required indicator                                                  *)

baseRequiredFields ==
    { "baseUrl", "campaignType", "campaignSource", "adType", "brand1",
      "productCategory", "campaignOwner", "startDate", "campaignNotes",
      "projectReferenceNumber", "industry", "tactic" }

\* variant: the indicator trims the cost center as the schema does
isFieldRequired_Trimmed(fieldName) ==
    IF fieldName \in baseRequiredFields THEN TRUE
    ELSE IF fieldName = "subLedger"
    THEN Truthy(rendered.costCenter) /\ Trim(rendered.costCenter) # ""
    ELSE FALSE

\* isFieldRequired as the last render evaluated it: form.watch('costCenter')
\* is the value that render read
isFieldRequired(fieldName) ==
    IF fieldName \in baseRequiredFields THEN TRUE
    ELSE IF fieldName = "subLedger" THEN Truthy(rendered.costCenter)
    ELSE FALSE

\* the completedFields effect on the values the last render watched: the keys
\* whose value is neither "", undefined nor null (a boolean never is)
completedFields ==
    { key \in DOMAIN rendered :
        key \in BooleanFields \/ rendered[key] \notin { "", Undefined, Null } }

FieldNames == StringFields \cup DateFields \cup BooleanFields

getFieldStatus(fieldName) ==
    LET hasError == fieldName \in DOMAIN errors
        isCompleted == fieldName \in completedFields
        isRequired == isFieldRequired(fieldName)
    IN  IF hasError THEN "error"
        ELSE IF isRequired /\ ~isCompleted THEN "required"
        ELSE IF isCompleted THEN "completed"
        ELSE "default"

----------------------------------------------------------------------------
(* Store failures                                                          *)

\* `error instanceof Error` on the values the model throws: the schema's
\* ZodError, the database's errors
instanceofError(thrown) ==
    thrown \in { "ZodError: Required", "error: duplicate key value",
                 "Error: Connection terminated" }

\* what a store call rejects with: an Error of the driver, or a value that is
\* no Error
StoreFailures == { "Error: Connection terminated", "<not an Error>" }

\* variant: the create routes answer every failure with 500
StoreFails_Always500(c, thrown) ==
    /\ \/ req[c].op = "create" /\ req[c].pc \in { "check", "insert" }
       \/ req[c].op = "check" /\ req[c].pc = "sent" /\ Truthy(req[c].name)
    /\ req' = [ req EXCEPT ![c] =
                  [ @ EXCEPT !.pc = "done", !.thrown = thrown, !.status = 500,
                      !.error = IF req[c].op = "check" THEN "Failed to check"
                                ELSE "Failed to create" ] ]
    /\ UNCHANGED <<table, nextId, issued>>
    /\ UNCHANGED <<formVars, clientVars, lookup, auth>>

\* a store call of a route rejects -- checkPartnerExists or createPartner in a
\* create route, checkPartnerExists in a check route -- and the route's catch
\* block answers
StoreFails(c, thrown) ==
    /\ \/ req[c].op = "create" /\ req[c].pc \in { "check", "insert" }
       \/ req[c].op = "check" /\ req[c].pc = "sent" /\ Truthy(req[c].name)
    /\ req' = [ req EXCEPT ![c] =
                  IF req[c].op = "check"
                  THEN [ @ EXCEPT !.pc = "done", !.thrown = thrown, !.status = 500,
                                  !.error = "Failed to check" ]
                  ELSE IF instanceofError(thrown)
                  THEN [ @ EXCEPT !.pc = "done", !.thrown = thrown, !.status = 400,
                                  !.error = thrown ]
                  ELSE [ @ EXCEPT !.pc = "done", !.thrown = thrown, !.status = 500,
                                  !.error = "Failed to create" ] ]
    /\ UNCHANGED <<table, nextId, issued>>
    /\ UNCHANGED <<formVars, clientVars, lookup, auth>>

\* getPartners / getThirdParties rejects: the list route's catch answers 500
ServerListFails(k) ==
    /\ fetch[k].pc = "sent"
    /\ fetch' = [ fetch EXCEPT ![k] =
                    [ pc |-> "failed",
                      data |-> [ status |-> 500, error |-> "Failed to fetch" ] ] ]
    /\ UNCHANGED <<modal, toast, cache, timers>>
    /\ UNCHANGED <<formVars, gatewayVars, lookup, auth>>

\* the failed list response reaches the query: the cached list stays
FetchFails(k) ==
    /\ fetch[k].pc = "failed"
    /\ fetch' = [ fetch EXCEPT ![k] = [ pc |-> "idle", data |-> << >> ] ]
    /\ UNCHANGED <<modal, toast, cache, timers>>
    /\ UNCHANGED <<formVars, gatewayVars, lookup, auth>>

----------------------------------------------------------------------------
(* useMsalAuth: the signed-in user                                         *)

MaxFetches == 2

NoUser == [ id |-> Null, email |-> Null, isAdmin |-> FALSE ]

\* the mock user of the development bypass
devUser ==
    [ id |-> "dev-user-id", email |-> "developer@company.com", isAdmin |-> TRUE ]

\* variant: the profile fetch grants admin
msalUser_Admin(account) ==
    [ id |-> account, email |-> "profileData.mail", isAdmin |-> TRUE ]

\* the user built from the Graph profile (success path)
msalUser(account) ==
    [ id |-> account, email |-> "profileData.mail", isAdmin |-> FALSE ]

\* the user built from the account alone (catch path)
fallbackUser(account) ==
    [ id |-> account, email |-> "account.username", isAdmin |-> FALSE ]

\* accounts[0].homeAccountId of the signed-in account
HomeAccountId == "homeAccountId"

\* import.meta.env.DEV && !isAuthenticated
isDevelopmentBypass == auth.dev /\ ~auth.isAuthenticated

\* the effect's dependencies [isAuthenticated, accounts, isDevelopmentBypass]
authDeps == << auth.isAuthenticated, auth.accounts, isDevelopmentBypass >>

\* the hook before its first effect: user null, isLoading true; ran holds the
\* dependencies the effect last ran with, token and graph count the calls of
\* fetchUserProfile waiting at acquireTokenSilent and at fetch, popup is the
\* MSAL popup in progress
useMsalAuthInit(dev) ==
    [ dev |-> dev, isAuthenticated |-> FALSE, accounts |-> 0,
      user |-> NoUser, isLoading |-> TRUE, token |-> 0, graph |-> 0,
      popup |-> "none", ran |-> << >> ]

\* calls of fetchUserProfile that have not finished
inFlight == auth.token + auth.graph

authStep(next) ==
    /\ auth' = next
    /\ UNCHANGED <<formVars, gatewayVars, clientVars, lookup>>

\* the effect, on mount and whenever a dependency changed; fetchUserProfile
\* runs up to its first await (setIsLoading(true))
authEffect ==
    /\ auth.ran # authDeps
    /\ IF auth.isAuthenticated /\ auth.accounts > 0
       THEN /\ inFlight < MaxFetches
            /\ authStep([ auth EXCEPT !.ran = authDeps, !.isLoading = TRUE,
                                       !.token = @ + 1 ])
       ELSE IF isDevelopmentBypass
       THEN authStep([ auth EXCEPT !.ran = authDeps, !.user = devUser,
                                   !.isLoading = FALSE ])
       ELSE authStep([ auth EXCEPT !.ran = authDeps, !.user = NoUser,
                                   !.isLoading = FALSE ])

\* login(): instance.loginPopup
login ==
    /\ auth.popup = "none"
    /\ ~auth.isAuthenticated
    /\ authStep([ auth EXCEPT !.popup = "login" ])

\* logout(): instance.logoutPopup
logout ==
    /\ auth.popup = "none"
    /\ auth.isAuthenticated
    /\ authStep([ auth EXCEPT !.popup = "logout" ])

\* the login popup resolves: MSAL reports the account
loginCompletes ==
    /\ auth.popup = "login"
    /\ authStep([ auth EXCEPT !.popup = "none", !.isAuthenticated = TRUE,
                               !.accounts = 1 ])

\* the logout popup resolves: MSAL drops the account
logoutCompletes ==
    /\ auth.popup = "logout"
    /\ authStep([ auth EXCEPT !.popup = "none", !.isAuthenticated = FALSE,
                               !.accounts = 0 ])

\* the popup rejects: .catch logs the error
popupRejected ==
    /\ auth.popup # "none"
    /\ authStep([ auth EXCEPT !.popup = "none" ])

\* fetchUserProfile: acquireTokenSilent resolves, the Graph call is sent
tokenAcquired ==
    /\ auth.token > 0
    /\ authStep([ auth EXCEPT !.token = @ - 1, !.graph = @ + 1 ])

\* fetchUserProfile: the Graph response is ok
profileOk ==
    /\ auth.graph > 0
    /\ authStep([ auth EXCEPT !.graph = @ - 1, !.user = msalUser(HomeAccountId),
                               !.isLoading = FALSE ])

\* fetchUserProfile: the Graph response is not ok -- no setUser
profileNotOk ==
    /\ auth.graph > 0
    /\ authStep([ auth EXCEPT !.graph = @ - 1, !.isLoading = FALSE ])

\* fetchUserProfile: acquireTokenSilent or fetch rejects
profileThrows ==
    \E stage \in {"token", "graph"} :
        /\ auth[stage] > 0
        /\ authStep([ auth EXCEPT ![stage] = @ - 1,
                                   !.user = fallbackUser(HomeAccountId),
                                   !.isLoading = FALSE ])

----------------------------------------------------------------------------
(* The form's steps                                                        *)

MaxSubmits == 2

NoChange == [ field |-> "", changed |-> FALSE ]

\* CampaignForm constructed with initialData, before its first commit
AppInit(initialData, dev) ==
    /\ values = DefaultValues(initialData)
    /\ rendered = DefaultValues(initialData)
    /\ mounted = FALSE
    /\ prev = NoPrev
    /\ lastSet = NoChange
    /\ errors = NoErrors
    /\ accepted = << >>
    /\ submits = 0
    /\ GatewayIdle
    /\ lookup = NoLookup
    /\ auth = useMsalAuthInit(dev)

\* CampaignForm in a production build
FormInit(initialData) == AppInit(initialData, FALSE)

\* one commit: the render reads the current values, then the effects run
Commit ==
    LET r == values
        s == RunEffects(r)
    IN  /\ values' = s.values
        /\ prev' = s.prev
        /\ rendered' = r
        /\ mounted' = TRUE
        /\ UNCHANGED <<lastSet, errors, accepted, submits>>
        /\ UNCHANGED <<gatewayVars, clientVars, lookup, auth>>

\* the first render of CampaignForm and its mount effects
Mount == ~mounted /\ Commit

\* a re-render caused by a value change, and the effects it triggers
Rerender == mounted /\ rendered # values /\ Commit

\* form.setValue(field, value) from a control's change handler
setValue(field, value) ==
    /\ Settled
    /\ values' = [ values EXCEPT ![field] = value ]
    /\ lastSet' = [ field |-> field, changed |-> (values[field] # value) ]
    /\ UNCHANGED <<rendered, mounted, prev, errors, accepted, submits>>
    /\ UNCHANGED <<gatewayVars, clientVars, lookup, auth>>

SelectCampaignType ==
    \E v \in Range(campaignTypes) : setValue("campaignType", v)

SelectCampaignSource ==
    \E v \in Range(filteredCampaignSources(rendered.campaignType)) :
        setValue("campaignSource", v)

SelectAdType ==
    \E v \in Range(filteredAdTypes(rendered.campaignType, rendered.campaignSource)) :
        setValue("adType", v)

SelectAdTypeDetail ==
    \E v \in Range(filteredAdTypeDetails(rendered.campaignType, rendered.adType)) :
        setValue("adTypeDetail", v)

SelectCostCenter ==
    \E v \in Range(costCenters) : setValue("costCenter", v)

SelectSubLedger ==
    \E v \in Range(filteredSubLedgers(rendered.costCenter)) :
        setValue("subLedger", v)

\* the calendar's onSelect for the start date
SelectStartDate == setValue("startDate", "2025-09-24")

\* form.handleSubmit(handleSubmit): validate, then call onSubmit on success
Submit ==
    /\ Settled
    /\ submits < MaxSubmits
    /\ submits' = submits + 1
    /\ errors' = campaignFormSchema(values)
    /\ accepted' = IF DOMAIN campaignFormSchema(values) = { }
                   THEN Append(accepted, values) ELSE accepted
    /\ UNCHANGED <<values, rendered, mounted, prev, lastSet>>
    /\ UNCHANGED <<gatewayVars, clientVars, lookup, auth>>

----------------------------------------------------------------------------
(* The add-partner / add-third-party modals, the mutations and the queries *)

\* what the user types into a modal's name input
TypedNames == { "  ", " Acme " }

nameField(k) == IF k = "partner" THEN "partnerName" ELSE "thirdPartyName"
flagField(k) == IF k = "partner" THEN "partnering" ELSE "thirdParty"

\* addPartnerMutation.isPending: the request of kind k's mutation is under way
isPending(k) == req[k].pc # "idle"

\* variant: the name is tested without trimming
nameMissing_Untrimmed(newName) == ~Truthy(newName)

\* `!newPartnerName.trim()`
nameMissing(newName) == ~Truthy(Trim(newName))

requiredToast(k) ==
    [ title |-> "Error",
      description |-> IF k = "partner" THEN "Partner name is required"
                      ELSE "Third party name is required" ]

addedToast(k, name) ==
    [ title |-> IF k = "partner" THEN "Partner added" ELSE "Third party added",
      description |-> name ]

\* apiRequest rejects when the response is not ok (status outside 200-299);
\* the rejection's message names the status
apiRequestOk(status) == status >= 200 /\ status < 300

\* variant: the success handler leaves the cache to the refetch
setQueryData_Skipped(oldData, newPartner) == oldData

\* queryClient.setQueryData(key, (oldData = []) => [...oldData, newPartner])
setQueryData(oldData, newPartner) == Append(oldData, newPartner)

errorToast(status) == [ title |-> "Error", description |-> ToString(status) ]

\* the "Add New ..." button, rendered while the flag is on, disabled while
\* the mutation is pending: onOpenChange(true)
OpenModal(k) ==
    /\ Settled
    /\ rendered[flagField(k)]
    /\ ~isPending(k)
    /\ \A j \in Kinds : ~modal[j].show
    /\ modal' = [ modal EXCEPT ![k].show = TRUE ]
    /\ UNCHANGED <<toast, cache, fetch, timers>>
    /\ UNCHANGED <<formVars, gatewayVars, lookup, auth>>

\* variant: switching a flag off clears the name it hides
SetFlag_ClearsName(k, b) ==
    /\ Settled
    /\ \A j \in Kinds : ~modal[j].show
    /\ b # rendered[flagField(k)]
    /\ values' = [ values EXCEPT ![flagField(k)] = b,
                                 ![nameField(k)] = IF b THEN @ ELSE "" ]
    /\ lastSet' = [ field |-> flagField(k), changed |-> TRUE ]
    /\ UNCHANGED <<rendered, mounted, prev, errors, accepted, submits>>
    /\ UNCHANGED <<gatewayVars, clientVars, lookup, auth>>

\* the Yes/No radio group of partnering / thirdParty: onValueChange fires for
\* the option that is not the checked one
SetFlag(k, b) ==
    /\ \A j \in Kinds : ~modal[j].show
    /\ b # rendered[flagField(k)]
    /\ setValue(flagField(k), b)

\* the name input's onChange
TypeName(k, name) ==
    /\ modal[k].show
    /\ modal' = [ modal EXCEPT ![k].newName = name ]
    /\ UNCHANGED <<toast, cache, fetch, timers>>
    /\ UNCHANGED <<formVars, gatewayVars, lookup, auth>>

\* the Cancel button
CancelModal(k) ==
    /\ modal[k].show
    /\ modal' = [ modal EXCEPT ![k] = [ show |-> FALSE, newName |-> "" ] ]
    /\ UNCHANGED <<toast, cache, fetch, timers>>
    /\ UNCHANGED <<formVars, gatewayVars, lookup, auth>>

\* the dialog dismissed (Escape, overlay): onOpenChange(false)
DismissModal(k) ==
    /\ modal[k].show
    /\ modal' = [ modal EXCEPT ![k].show = FALSE ]
    /\ UNCHANGED <<toast, cache, fetch, timers>>
    /\ UNCHANGED <<formVars, gatewayVars, lookup, auth>>

\* handleAddPartner / handleAddThirdParty
handleAdd(k) ==
    /\ modal[k].show
    /\ ~isPending(k)
    /\ IF nameMissing(modal[k].newName)
       THEN /\ toast' = requiredToast(k)
            /\ UNCHANGED <<req, issued>>
       ELSE /\ issued < MaxRequests
            /\ issued' = issued + 1
            /\ req' = [ req EXCEPT ![k] =
                          [ IdleRequest EXCEPT !.pc = "sent", !.op = "create",
                              !.kind = k, !.name = Trim(modal[k].newName),
                              !.existed = Present(k, Trim(modal[k].newName)) ] ]
            /\ UNCHANGED toast
    /\ UNCHANGED <<table, nextId, modal, cache, fetch, timers>>
    /\ UNCHANGED <<formVars, lookup, auth>>

\* the form's request is lost on the way (network failure): the mutation
\* function rejects without a response
RequestFails(k) ==
    /\ req[k].pc = "sent"
    /\ req' = [ req EXCEPT ![k].pc = "done", ![k].status = 0 ]
    /\ UNCHANGED <<table, nextId, issued>>
    /\ UNCHANGED <<formVars, clientVars, lookup, auth>>

\* variant: the error handler closes and clears the modal as the success
\* handler does
MutationSettled_ClosesOnError(k) ==
    /\ req[k].pc = "done"
    /\ req' = [ req EXCEPT ![k] = IdleRequest ]
    /\ IF apiRequestOk(req[k].status)
       THEN /\ cache' = [ cache EXCEPT ![k] = setQueryData(@, req[k].row) ]
            /\ fetch' = [ fetch EXCEPT ![k] = [ pc |-> "sent", data |-> << >> ] ]
            /\ timers' = timers \cup { [ kind |-> k, name |-> req[k].row.name ] }
            /\ modal' = [ modal EXCEPT ![k] = [ show |-> FALSE, newName |-> "" ] ]
            /\ toast' = addedToast(k, req[k].row.name)
       ELSE /\ toast' = errorToast(req[k].status)
            /\ modal' = [ modal EXCEPT ![k] = [ show |-> FALSE, newName |-> "" ] ]
            /\ UNCHANGED <<cache, fetch, timers>>
    /\ UNCHANGED <<table, nextId, issued>>
    /\ UNCHANGED <<formVars, lookup, auth>>

\* the mutation's result reaches the form: onSuccess or onError
MutationSettled(k) ==
    /\ req[k].pc = "done"
    /\ req' = [ req EXCEPT ![k] = IdleRequest ]
    /\ IF apiRequestOk(req[k].status)
       THEN /\ cache' = [ cache EXCEPT ![k] = setQueryData(@, req[k].row) ]
            /\ fetch' = [ fetch EXCEPT ![k] = [ pc |-> "sent", data |-> << >> ] ]
            /\ timers' = timers \cup { [ kind |-> k, name |-> req[k].row.name ] }
            /\ modal' = [ modal EXCEPT ![k] = [ show |-> FALSE, newName |-> "" ] ]
            /\ toast' = addedToast(k, req[k].row.name)
       ELSE /\ toast' = errorToast(req[k].status)
            /\ UNCHANGED <<cache, fetch, timers, modal>>
    /\ UNCHANGED <<table, nextId, issued>>
    /\ UNCHANGED <<formVars, lookup, auth>>

\* variant: the delayed assignment is dropped when the flag is off
TimerFires_OnlyWhileFlagOn(t) ==
    /\ t \in timers
    /\ mounted
    /\ timers' = timers \ { t }
    /\ values' = IF values[flagField(t.kind)]
                 THEN [ values EXCEPT ![nameField(t.kind)] = t.name ]
                 ELSE values
    /\ UNCHANGED <<rendered, mounted, prev, lastSet, errors, accepted, submits>>
    /\ UNCHANGED <<modal, toast, cache, fetch>>
    /\ UNCHANGED <<gatewayVars, lookup, auth>>

\* the success handler's setTimeout callback: form.setValue(partnerName, name)
TimerFires(t) ==
    /\ t \in timers
    /\ mounted
    /\ timers' = timers \ { t }
    /\ values' = [ values EXCEPT ![nameField(t.kind)] = t.name ]
    /\ UNCHANGED <<rendered, mounted, prev, lastSet, errors, accepted, submits>>
    /\ UNCHANGED <<modal, toast, cache, fetch>>
    /\ UNCHANGED <<gatewayVars, lookup, auth>>

\* String.prototype.localeCompare on the names of the model: the collation of
\* the locale puts white space before letters and a lower-case letter before
\* its upper-case form
LocaleCollation == << "", "  ", "acme", "Acme" >>

localeCompare(a, b) ==
    (CHOOSE i \in 1..Len(LocaleCollation) : LocaleCollation[i] = a)
    - (CHOOSE i \in 1..Len(LocaleCollation) : LocaleCollation[i] = b)

\* variant: the options are shown in the order of the cache
sortByName_Unsorted(rows) == rows

\* rows.sort((a, b) => a.name.localeCompare(b.name)): a stable sort -- each
\* row goes behind the rows before it that do not compare greater
RECURSIVE sortByName(_)
sortByName(rows) ==
    IF rows = << >> THEN << >>
    ELSE LET head == sortByName(SubSeq(rows, 1, Len(rows) - 1))
             last == rows[Len(rows)]
             keep == { i \in 1..Len(head) : localeCompare(head[i].name, last.name) <= 0 }
             n == IF keep = { } THEN 0 ELSE CHOOSE i \in keep : \A j \in keep : j <= i
         IN  SubSeq(head, 1, n) \o << last >> \o SubSeq(head, n + 1, Len(head))

\* the SelectItems of the partner / third-party select, one per cached row
shownOptions(k) == sortByName(cache[k])

\* the name select's onValueChange
SelectName(k) ==
    /\ rendered[flagField(k)]
    /\ \A j \in Kinds : ~modal[j].show
    /\ \E i \in 1..Len(shownOptions(k)) :
          setValue(nameField(k), shownOptions(k)[i].name)

\* the order of the database's ORDER BY name on the names of the model
NameCollation == << "", "  ", "Acme", "acme" >>

NameRank(name) == CHOOSE i \in 1..Len(NameCollation) : NameCollation[i] = name

RowBefore(a, b) ==
    \/ NameRank(a.name) < NameRank(b.name)
    \/ NameRank(a.name) = NameRank(b.name) /\ a.id < b.id

RECURSIVE OrderedByName(_)
OrderedByName(rows) ==
    IF rows = { } THEN << >>
    ELSE LET first == CHOOSE a \in rows : \A b \in rows \ { a } : RowBefore(a, b)
         IN  << first >> \o OrderedByName(rows \ { first })

\* DatabaseStorage.getPartners: select ... order by name asc
getPartners(rows) == OrderedByName(rows)

\* DatabaseStorage.getThirdParties
getThirdParties(rows) == OrderedByName(rows)

\* app.get("/api/partners" | "/api/third-parties") answers the list query
ServerList(k) ==
    /\ fetch[k].pc = "sent"
    /\ fetch' = [ fetch EXCEPT ![k] =
                    [ pc |-> "answered",
                      data |-> IF k = "partner" THEN getPartners(table[k])
                               ELSE getThirdParties(table[k]) ] ]
    /\ UNCHANGED <<modal, toast, cache, timers>>
    /\ UNCHANGED <<formVars, gatewayVars, lookup, auth>>

\* the list response reaches the query cache
FetchArrives(k) ==
    /\ fetch[k].pc = "answered"
    /\ cache' = [ cache EXCEPT ![k] = fetch[k].data ]
    /\ fetch' = [ fetch EXCEPT ![k] = [ pc |-> "idle", data |-> << >> ] ]
    /\ UNCHANGED <<modal, toast, timers>>
    /\ UNCHANGED <<formVars, gatewayVars, lookup, auth>>

CascadeInit == \E initialData \in InitialDataSet : FormInit(initialData)

CascadeNext ==
    \/ Mount
    \/ Rerender
    \/ SelectCampaignType
    \/ SelectCampaignSource
    \/ SelectAdType
    \/ SelectAdTypeDetail
    \/ SelectCostCenter
    \/ SelectSubLedger

\* the form under selections in the dependent dropdowns
CascadeSpec == CascadeInit /\ [][CascadeNext]_vars

EmptyDraftInit == FormInit(NoInitialData)

\* the form opened without initialData
EmptyDraftSpec == EmptyDraftInit /\ [][CascadeNext]_vars

SubmitInit == \E initialData \in SubmitDataSet : FormInit(initialData)

SubmitNext ==
    \/ Mount
    \/ Rerender
    \/ SelectCostCenter
    \/ SelectSubLedger
    \/ SelectStartDate
    \/ Submit

\* the form under cost-center selections and submission
SubmitSpec == SubmitInit /\ [][SubmitNext]_vars

ServerNext ==
    \/ \E c \in Others, k \in Kinds, name \in PostedNames : PostCreate(c, k, name)
    \/ \E c \in Senders : ServerParse(c)
    \/ \E c \in Senders : ServerCheck(c)
    \/ \E c \in Senders : ServerInsert(c)
    \/ \E c \in Others : TakeResponse(c)
    \/ \E c \in Others, k \in Kinds, name \in PostedNames : PostCheck(c, k, name)
    \/ \E c \in Others : ServerAnswerCheck(c)

ServerInit == FormInit(NoInitialData)

\* the gateway under requests of other senders
ServerSpec == ServerInit /\ [][ServerNext]_vars

\* the form opened on a draft with partnering or thirdParty switched on
ModalInit ==
    \E k \in Kinds : FormInit([ NoInitialData EXCEPT ![flagField(k)] = TRUE ])

ModalNext ==
    \/ Mount
    \/ Rerender
    \/ \E k \in Kinds : OpenModal(k)
    \/ \E k \in Kinds, name \in TypedNames : TypeName(k, name)
    \/ \E k \in Kinds : CancelModal(k)
    \/ \E k \in Kinds : DismissModal(k)
    \/ \E k \in Kinds : handleAdd(k)
    \/ \E k \in Kinds : PostCreate("other1", k, "Acme")
    \/ \E c \in Senders : ServerParse(c)
    \/ \E c \in Senders : ServerCheck(c)
    \/ \E c \in Senders : ServerInsert(c)
    \/ TakeResponse("other1")
    \/ \E k \in Kinds : RequestFails(k)
    \/ \E k \in Kinds : MutationSettled(k)
    \/ \E t \in timers : TimerFires(t)
    \/ \E k \in Kinds : ServerList(k)
    \/ \E k \in Kinds : FetchArrives(k)

\* the form's modals against the gateway, one other sender creating "Acme"
ModalSpec == ModalInit /\ [][ModalNext]_vars

LookupNext ==
    \/ \E campaignType \in LookupInputs : LookupSources(campaignType)
    \/ \E campaignType, campaignSource \in LookupInputs :
          LookupAdTypes(campaignType, campaignSource)
    \/ \E campaignType, adType \in LookupInputs :
          LookupAdTypeDetails(campaignType, adType)
    \/ \E costCenter \in LookupInputs : LookupSubLedgers(costCenter)

LookupInit == FormInit(NoInitialData)

\* the four resolvers evaluated on arbitrary strings
LookupSpec == LookupInit /\ [][LookupNext]_vars

\* submission explored from the drafts that hold the required fields alone,
\* with the cost center and the partnering flag varied
AcceptInit ==
    \E cc \in InitialCostCenters, p \in BOOLEAN :
        FormInit([ RequiredInitialData EXCEPT !.costCenter = cc[1],
                                              !.subLedger = cc[2],
                                              !.partnering = p ])

AcceptNext ==
    \/ Mount
    \/ Rerender
    \/ SelectSubLedger
    \/ SelectStartDate
    \/ Submit

AcceptSpec == AcceptInit /\ [][AcceptNext]_vars

\* drafts that hold the required fields, with the two flags and the two
\* names varied
FlagInit ==
    \E p \in BOOLEAN, t \in BOOLEAN,
       pn \in { Undefined, "Acme" }, tn \in { Undefined, "Acme" } :
        FormInit([ RequiredInitialData EXCEPT !.partnering = p, !.thirdParty = t,
                                              !.partnerName = pn,
                                              !.thirdPartyName = tn ])

FlagNext ==
    \/ Mount
    \/ Rerender
    \/ \E k \in Kinds, b \in BOOLEAN : SetFlag(k, b)
    \/ Submit

\* the two flags switched on and off, and submission
FlagSpec == FlagInit /\ [][FlagNext]_vars

OptionsNext ==
    \/ Mount
    \/ Rerender
    \/ \E k \in Kinds : OpenModal(k)
    \/ \E k \in Kinds : TypeName(k, "acme")
    \/ \E k \in Kinds : handleAdd(k)
    \/ \E k \in Kinds : PostCreate("other1", k, "Acme")
    \/ \E c \in Senders : ServerParse(c)
    \/ \E c \in Senders : ServerCheck(c)
    \/ \E c \in Senders : ServerInsert(c)
    \/ \E k \in Kinds : MutationSettled(k)
    \/ \E t \in timers : TimerFires(t)
    \/ \E k \in Kinds : ServerList(k)
    \/ \E k \in Kinds : FetchArrives(k)
    \/ \E k \in Kinds : SelectName(k)
    \/ \E k \in Kinds : SetFlag(k, FALSE)

\* the name selects and the modals, the form creating "acme" and another
\* sender "Acme"
OptionsSpec == ModalInit /\ [][OptionsNext]_vars

\* ... where a timer that was set goes off
OptionsFairSpec == OptionsSpec /\ WF_vars(\E t \in timers : TimerFires(t))

ErrorNext ==
    \/ \E c \in Others, k \in Kinds, name \in { Undefined, "Acme" } :
          PostCreate(c, k, name)
    \/ \E c \in Others : ServerParse(c)
    \/ \E c \in Others : ServerCheck(c)
    \/ \E c \in Others : ServerInsert(c)
    \/ \E c \in Others : TakeResponse(c)
    \/ \E c \in Others, k \in Kinds : PostCheck(c, k, "Acme")
    \/ \E c \in Others : ServerAnswerCheck(c)
    \/ \E c \in Others, thrown \in StoreFailures : StoreFails(c, thrown)
    \/ \E k \in Kinds : ServerList(k)
    \/ \E k \in Kinds : ServerListFails(k)
    \/ \E k \in Kinds : FetchArrives(k)
    \/ \E k \in Kinds : FetchFails(k)

\* the gateway with a store whose calls can fail
ErrorSpec == ServerInit /\ [][ErrorNext]_vars

AuthNext ==
    \/ authEffect
    \/ login
    \/ logout
    \/ loginCompletes
    \/ logoutCompletes
    \/ popupRejected
    \/ tokenAcquired
    \/ profileOk
    \/ profileNotOk
    \/ profileThrows

AuthInit == \E dev \in BOOLEAN : AppInit(NoInitialData, dev)

\* the auth hook in a development and in a production build
AuthSpec == AuthInit /\ [][AuthNext]_vars

----------------------------------------------------------------------------
(* Properties                                                              *)

\* C1: once the effects have settled after a user change of campaignType to a
\* different value, campaignSource, adType and adTypeDetail are empty; after a
\* change of campaignSource, adType and adTypeDetail are empty; after a change
\* of adType, adTypeDetail is empty -- also when the old child is valid under
\* the new parent.
C1_CascadeReset ==
    (Settled /\ lastSet.changed) =>
        /\ lastSet.field = "campaignType" =>
              values.campaignSource = "" /\ values.adType = "" /\ values.adTypeDetail = ""
        /\ lastSet.field = "campaignSource" =>
              values.adType = "" /\ values.adTypeDetail = ""
        /\ lastSet.field = "adType" => values.adTypeDetail = ""

\* the campaignType effect has just cleared a campaignSource ("Google") that
\* the new campaignType ("Google Ads") offers as well
C1_Witness ==
    /\ mounted
    /\ lastSet = [ field |-> "campaignType", changed |-> TRUE ]
    /\ values.campaignType = "Google Ads"
    /\ prev.campaignType = "Google Ads"
    /\ prev.campaignSource = "Google"
    /\ values.campaignSource = ""
    /\ values.adType = ""
    /\ values.adTypeDetail = ""

\* C2: from an empty draft, in every settled state each child value is empty or
\* one of the options its parents' current values resolve to.
C2_HierarchyInvariant ==
    Settled =>
        /\ values.campaignSource = "" \/
             values.campaignSource \in Range(filteredCampaignSources(values.campaignType))
        /\ values.adType = "" \/
             values.adType \in Range(filteredAdTypes(values.campaignType, values.campaignSource))
        /\ values.adTypeDetail = "" \/
             values.adTypeDetail \in Range(filteredAdTypeDetails(values.campaignType, values.adType))
        /\ values.subLedger = "" \/
             values.subLedger \in Range(filteredSubLedgers(values.costCenter))

\* a complete chain and a sub-ledger chosen after the cost center was changed
\* from one center to another
C2_Witness ==
    /\ Settled
    /\ values.campaignType = "Social Media"
    /\ values.campaignSource = "LinkedIn"
    /\ values.adType = "Image"
    /\ values.adTypeDetail = "Native"
    /\ values.costCenter = "Sales"
    /\ values.subLedger = "Sales Support"

\* C3 (as claimed): once the effects have settled after a user change of
\* costCenter to a different value, subLedger is empty -- whatever the old
\* costCenter was, the empty one included.
C3_CostCenterReset ==
    (Settled /\ lastSet.field = "costCenter" /\ lastSet.changed) =>
        values.subLedger = ""

\* C4: the mount commit changes no field value: the loaded campaignSource,
\* adType, adTypeDetail and subLedger are still there when the mount effects
\* have run, and nothing is left to re-render.
C4_MountGuard ==
    [][ ~mounted =>
          /\ values'.campaignSource = values.campaignSource
          /\ values'.adType = values.adType
          /\ values'.adTypeDetail = values.adTypeDetail
          /\ values'.subLedger = values.subLedger
          /\ mounted' /\ rendered' = values' ]_vars

\* mounted from a pre-filled draft, before any user change
C4_Witness ==
    /\ Settled
    /\ lastSet = NoChange
    /\ prev.campaignType = "Display Ads"
    /\ prev.costCenter = "Engineering"
    /\ values.campaignSource = "Google"
    /\ values.adType = "Banner"
    /\ values.adTypeDetail = "Standard Banner"
    /\ values.subLedger = "Engineering Projects"

\* C5 (as claimed, for the cost centers the form offers): a submit of a draft
\* with a non-empty costCenter and an empty subLedger puts an entry under
\* subLedger into the violation map and does not call the acceptance callback,
\* whatever the other fields hold.
C5_SubLedgerViolation ==
    [][ (/\ submits' = submits + 1
         /\ values.costCenter \in Range(costCenters)
         /\ values.subLedger = "") =>
          /\ "subLedger" \in DOMAIN errors'
          /\ accepted' = accepted ]_vars

\* C6: in every settled state the indicator isFieldRequired('subLedger') is
\* true exactly when the current costCenter is not the empty string.
C6_SubLedgerRequiredIff ==
    Settled => (isFieldRequired("subLedger") <=> values.costCenter # "")

\* the indicator after the user changed the cost center
C6_Witness ==
    /\ Settled
    /\ lastSet = [ field |-> "costCenter", changed |-> TRUE ]
    /\ values.costCenter = "Marketing"
    /\ isFieldRequired("subLedger")

CreateDone(c) == req[c].pc = "done" /\ req[c].op = "create"

\* C7 (as claimed): a create issued when the table already holds the name (an
\* earlier create of it succeeded) is answered 409 and leaves the one row of
\* that name; a name a create was answered 201 for exists; and a check of a
\* name whose row is there answers exists = true.  Partners and third parties
\* alike.
C7_DuplicateRejected ==
    \A c \in Senders :
        /\ (CreateDone(c) /\ req[c].existed) =>
              /\ req[c].status = 409
              /\ req[c].row = NoRow
              /\ Cardinality({ r \in table[req[c].kind] : r.name = req[c].name }) = 1
        /\ (CreateDone(c) /\ req[c].status = 201) =>
              storageExists(req[c].kind, req[c].name)
        /\ (req[c].pc = "done" /\ req[c].op = "check" /\ req[c].existed) =>
              req[c].status = 200 /\ req[c].exists

\* C8: no table ever holds two rows with the same name (compared exactly),
\* whatever the interleaving of the create requests.
C8_NameUnique ==
    \A k \in Kinds : \A r1, r2 \in table[k] : r1.name = r2.name => r1 = r2

\* two creates of one partner name whose existence checks both ran before
\* either insert: one was answered 201, the other's insert failed
C8_Witness ==
    /\ CreateDone("other1") /\ req["other1"].status = 201
    /\ CreateDone("other2") /\ req["other2"].status = 400
    /\ req["other1"].kind = "partner" /\ req["other2"].kind = "partner"
    /\ req["other1"].name = "Acme" /\ req["other2"].name = "Acme"
    /\ ~req["other2"].existed

\* C9: a press of the modal's Add button with a name that trims to nothing
\* sends no request and changes neither tables, cache nor modal: it only shows
\* the "name is required" toast.  A name that passes is sent trimmed.
C9_BlankNameNotSent ==
    [][ \A k \in Kinds :
          handleAdd(k) =>
            IF Trim(modal[k].newName) = ""
            THEN /\ req' = req /\ table' = table /\ cache' = cache
                 /\ modal' = modal /\ fetch' = fetch
                 /\ toast' = requiredToast(k)
            ELSE /\ req'[k].pc = "sent"
                 /\ req'[k].name = Trim(modal[k].newName)
                 /\ Trim(req'[k].name) = req'[k].name ]_vars

\* a whitespace-only partner name has just been refused
C9_Witness ==
    /\ modal["partner"].show
    /\ modal["partner"].newName = "  "
    /\ toast = requiredToast("partner")
    /\ req["partner"].pc = "idle"
    /\ issued = 0

\* C10 (as claimed): a create whose name is missing, empty or empty after
\* trimming is answered 400 and creates nothing, and no table holds a row
\* whose name is empty or white space only.
C10_BlankNameRefused ==
    /\ \A c \in Senders :
          (CreateDone(c) /\ (req[c].name = Undefined \/ Trim(req[c].name) = "")) =>
              req[c].status = 400 /\ req[c].row = NoRow
    /\ \A k \in Kinds : \A r \in table[k] : Trim(r.name) # ""

\* C15 (as claimed): the source resolver is total -- for every string that is
\* empty or is not one of the table's own campaign types, the inherited names
\* included, it returns the empty list and does not raise.
C15_SourcesTotal ==
    (lookup.fn = "filteredCampaignSources"
       /\ (lookup.a = "" \/ lookup.a \notin DOMAIN campaignHierarchy)) =>
        lookup.out = << >>

\* C16 (as claimed): for every pair whose campaignSource is not one of the
\* table's sources of campaignType -- an empty or unknown campaignType and an
\* empty campaignSource included -- the ad-type resolver returns the empty list.
C16_AdTypesOfForeignSource ==
    (lookup.fn = "filteredAdTypes"
       /\ ~(/\ lookup.a \in DOMAIN campaignHierarchy
            /\ lookup.b \in Range(campaignHierarchy[lookup.a].sources))) =>
        lookup.out = << >>

\* the list is in strictly ascending order (so it holds no duplicates)
Ascending(list) ==
    \A i, j \in 1..Len(list) : i < j => Rank(list[i]) < Rank(list[j])

\* C17 (as claimed): on a key of the table each resolver returns exactly the
\* table's entries for it, ascending and without duplicates; the ad-type-detail
\* resolver returns the empty list when an argument is empty or adType is no
\* key under campaignType, the sub-ledger resolver when costCenter is empty or
\* unknown; and the table's list is what it was.
C17_ResolversExact ==
    LET known ==
          CASE lookup.fn = "filteredCampaignSources" ->
                 lookup.a \in DOMAIN campaignHierarchy
            [] lookup.fn = "filteredAdTypes" ->
                 /\ lookup.a \in DOMAIN campaignHierarchy
                 /\ lookup.b \in DOMAIN campaignHierarchy[lookup.a].adTypes
            [] lookup.fn = "filteredAdTypeDetails" ->
                 /\ lookup.a \in DOMAIN campaignHierarchy
                 /\ lookup.b \in DOMAIN campaignHierarchy[lookup.a].adTypeDetails
            [] lookup.fn = "filteredSubLedgers" ->
                 lookup.a \in DOMAIN costCenterSubLedgers
            [] OTHER -> FALSE
    IN  /\ known =>
            /\ lookup.out # TypeError
            /\ Range(lookup.out) = Range(lookup.entry)
            /\ Len(lookup.out) = Len(lookup.entry)
            /\ Ascending(lookup.out)
        /\ (lookup.fn \in { "filteredAdTypeDetails", "filteredSubLedgers" } /\ ~known) =>
            lookup.out = << >>

\* every required field filled (baseUrl an absolute URL), every optional field
\* empty, the three flags false
RequiredOnly(data) ==
    /\ data.baseUrl \in AbsoluteUrls
    /\ \A f \in DOMAIN MinOneMessage : data[f] # ""
    /\ data.startDate # Undefined
    /\ data.endDate = Undefined
    /\ \A f \in StringFields \ baseRequiredFields : data[f] = ""
    /\ \A f \in BooleanFields : ~data[f]

\* C11: a submit of a draft with every required field filled, every optional
\* field empty and the flags false leaves no field error and hands the draft's
\* field values to the acceptance callback, once.
C11_CompleteDraftAccepted ==
    [][ (submits' = submits + 1 /\ RequiredOnly(values)) =>
          /\ errors' = NoErrors
          /\ accepted' = Append(accepted, values) ]_vars

\* the draft of the required fields alone has been submitted and accepted
C11_Witness ==
    /\ submits = 1
    /\ errors = NoErrors
    /\ accepted = << DefaultValues(RequiredInitialData) >>
    /\ RequiredOnly(values)

\* C12 (as claimed): the callback is invoked exactly when validation of the
\* submitted draft succeeds; a failed submit invokes no callback, changes no
\* field value, and changes the status of a field only by making a field with
\* a violation `error`.
C12_FailedSubmitFrame ==
    [][ submits' = submits + 1 =>
          /\ (accepted' # accepted) <=> (DOMAIN campaignFormSchema(values) = { })
          /\ DOMAIN errors' # { } =>
                /\ accepted' = accepted
                /\ values' = values
                /\ \A f \in FieldNames :
                      getFieldStatus(f)' # getFieldStatus(f) =>
                          f \in DOMAIN errors' /\ getFieldStatus(f)' = "error" ]_vars

\* C13 (as claimed): a draft whose campaignSource, adType, adTypeDetail or
\* subLedger is not among the options its parents resolve to is never handed
\* to the acceptance callback, whatever the initial draft.
C13_MembershipValidated ==
    \A i \in 1..Len(accepted) :
        LET d == accepted[i]
        IN  /\ d.campaignSource \in Range(filteredCampaignSources(d.campaignType))
            /\ d.adType \in Range(filteredAdTypes(d.campaignType, d.campaignSource))
            /\ d.adTypeDetail = "" \/
                 d.adTypeDetail \in Range(filteredAdTypeDetails(d.campaignType, d.adType))
            /\ d.subLedger = "" \/
                 d.subLedger \in Range(filteredSubLedgers(d.costCenter))

\* C14 (as claimed): a submit with partnering true and partnerName empty, or
\* with thirdParty true and thirdPartyName empty, fails validation; and the
\* name is marked required exactly when its flag is on.
C14_NameRequiredWithFlag ==
    /\ \A i \in 1..Len(accepted) :
          /\ accepted[i].partnering => accepted[i].partnerName # ""
          /\ accepted[i].thirdParty => accepted[i].thirdPartyName # ""
    /\ Settled =>
          /\ isFieldRequired("partnerName") <=> values.partnering
          /\ isFieldRequired("thirdPartyName") <=> values.thirdParty

\* the status the claim's table gives a field from the recorded violations
\* and the current values
TableStatus(f) ==
    LET empty == f \notin BooleanFields /\ values[f] \in { "", Undefined }
        required == \/ f \in baseRequiredFields
                    \/ f = "subLedger" /\ values.costCenter # ""
    IN  IF f \in DOMAIN errors THEN "error"
        ELSE IF required /\ empty THEN "required"
        ELSE IF ~empty THEN "completed"
        ELSE "default"

\* C18 (as claimed): in every settled state each field has the status of the
\* table -- error iff it has a validation error, else required-unmet iff
\* required and empty, else completed iff non-empty, else default -- and the
\* status follows the field's current value: a field shown as error is in
\* violation with the values the draft holds now.
C18_FieldStatus ==
    Settled =>
        \A f \in FieldNames :
            /\ getFieldStatus(f) = TableStatus(f)
            /\ getFieldStatus(f) = "error" => f \in DOMAIN campaignFormSchema(values)

\* C19: when a create of the form succeeds the created entity is in the
\* cache at once, with the refetch of the list only just sent; the refetch is
\* answered with the store's list in name order, and when it completes the
\* cache is that list and has lost nothing it held.
C19_OptimisticThenReconciled ==
    [][ \A k \in Kinds :
          /\ (req[k].pc = "done" /\ apiRequestOk(req[k].status) /\ req'[k].pc = "idle") =>
                /\ req[k].row \in Range(cache'[k])
                /\ req[k].row \in table[k]
                /\ fetch'[k].pc = "sent"
          /\ (fetch[k].pc = "sent" /\ fetch'[k].pc = "answered") =>
                fetch'[k].data = OrderedByName(table[k])
          /\ (fetch[k].pc = "answered" /\ fetch'[k].pc = "idle") =>
                /\ cache'[k] = fetch[k].data
                /\ Range(cache[k]) \subseteq Range(cache'[k]) ]_vars

\* the partner just created is in the cache while the refetch is under way
C19_Witness ==
    /\ toast = addedToast("partner", "Acme")
    /\ fetch["partner"].pc = "sent"
    /\ \E row \in table["partner"] : cache["partner"] = << row >>
    /\ ~modal["partner"].show

C22_AdminOnlyFromBypass ==
    [][ /\ (inFlight' < inFlight /\ auth'.user # auth.user) =>
              ~auth'.user.isAdmin
        /\ (auth'.user # auth.user /\ auth'.user.isAdmin) =>
              /\ auth.dev /\ ~auth.isAuthenticated
              /\ auth'.user = devUser ]_vars

\* a profile fetch that threw has replaced the bypass's mock user
C22_Witness ==
    /\ auth.dev
    /\ auth.isAuthenticated
    /\ auth.user = fallbackUser(HomeAccountId)
    /\ inFlight = 0
    /\ ~auth.isLoading

\* C23 (as claimed): when two creates of one name have both passed the
\* existence check before either insert ran, the insert that comes back first
\* is answered 201 and the other request is answered 409.
C23_ConcurrentDuplicate ==
    [][ \A c \in Senders, d \in Senders :
          ( /\ c # d
            /\ req[d].op = "create" /\ req[d].pc = "insert"
            /\ req[c].op = "create"
            /\ req[c].kind = req[d].kind /\ req[c].name = req[d].name
            /\ req'[d].pc = "done" ) =>
              /\ req[c].pc = "insert" => req'[d].status = 201
              /\ (req[c].pc = "done" /\ req[c].status = 201) =>
                    req'[d].status = 409 ]_vars

\* C27 (as claimed): the cached list of a kind never holds two entries with
\* the same id, whatever the order of list responses and success handlers.
C27_CacheIdsDistinct ==
    \A k \in Kinds :
        \A i \in 1..Len(cache[k]), j \in 1..Len(cache[k]) :
            i # j => cache[k][i].id # cache[k][j].id

\* the draft with one field emptied: a string field "", a date field undefined
Emptied(data, f) == [ data EXCEPT ![f] = IF f \in DateFields THEN Undefined ELSE "" ]

\* C25 (as claimed): for every field and every valid draft the form shows, the
\* required indicator of the field is on exactly when the schema rejects the
\* draft with that field emptied -- whatever the cost center holds.
C25_IndicatorMatchesSchema ==
    (Settled /\ campaignFormSchema(values) = NoErrors) =>
        \A f \in StringFields \cup DateFields :
            isFieldRequired(f) <=> campaignFormSchema(Emptied(values, f)) # NoErrors

\* the options a resolver returned: a list with at least one entry
Offers(options) == options # TypeError /\ options # << >>

\* C24: the hierarchy table is consistent -- per campaign type the keys of
\* adTypes are the sources, every ad type under a source is a key of
\* adTypeDetails with a non-empty list, every cost center has a sub-ledger --
\* and so, from an empty draft, in every settled state each dropdown whose
\* parents are chosen offers at least one option.
C24_TableConsistent ==
    /\ \A t \in DOMAIN campaignHierarchy :
          LET h == campaignHierarchy[t]
          IN  /\ h.sources # << >>
              /\ DOMAIN h.adTypes = Range(h.sources)
              /\ \A src \in Range(h.sources) :
                    /\ h.adTypes[src] # << >>
                    /\ \A a \in Range(h.adTypes[src]) :
                          /\ a \in DOMAIN h.adTypeDetails
                          /\ h.adTypeDetails[a] # << >>
    /\ \A cc \in DOMAIN costCenterSubLedgers : costCenterSubLedgers[cc] # << >>
    /\ Settled =>
          /\ values.campaignType # "" =>
                Offers(filteredCampaignSources(values.campaignType))
          /\ values.campaignSource # "" =>
                Offers(filteredAdTypes(values.campaignType, values.campaignSource))
          /\ values.adType # "" =>
                Offers(filteredAdTypeDetails(values.campaignType, values.adType))
          /\ values.costCenter # "" =>
                Offers(filteredSubLedgers(values.costCenter))

\* a chain completed level by level under the last campaign type, and a
\* sub-ledger under a cost center
C24_Witness ==
    /\ Settled
    /\ values.campaignType = "Video Campaign"
    /\ values.campaignSource = "Paid Social"
    /\ values.adType = "Carousel"
    /\ values.adTypeDetail = "Rich Media"
    /\ values.costCenter = "Product"
    /\ values.subLedger = "Product Research"

\* the fields below a field in the two hierarchies
Descendants(field) ==
    CASE field = "campaignType" -> { "campaignSource", "adType", "adTypeDetail" }
      [] field = "campaignSource" -> { "adType", "adTypeDetail" }
      [] field = "adType" -> { "adTypeDetail" }
      [] field = "costCenter" -> { "subLedger" }
      [] OTHER -> { }

\* the fields whose value a step changes
Altered == { f \in DOMAIN values : values'[f] # values[f] }

\* C29: a control's change writes its own field alone, and the commits that
\* follow it alter only descendants of that field -- none at all when the
\* field has no children or was set to the value it already held.  So a
\* costCenter change never touches the campaign chain, and a change in the
\* chain never touches costCenter, subLedger or an ancestor.
C29_OnlyDescendantsAltered ==
    [][ /\ (mounted /\ rendered' = rendered) => Altered \subseteq { lastSet'.field }
        /\ (mounted /\ rendered' # rendered) =>
              Altered \subseteq (IF lastSet.changed THEN Descendants(lastSet.field)
                                 ELSE { }) ]_vars

\* a costCenter change has been committed on a draft with a complete campaign
\* chain: the sub-ledger is cleared, the chain stands
C29_Witness ==
    /\ Settled
    /\ lastSet = [ field |-> "costCenter", changed |-> TRUE ]
    /\ values.costCenter = "Sales"
    /\ values.subLedger = ""
    /\ values.campaignType # "" /\ values.campaignSource # ""
    /\ values.adType # "" /\ values.adTypeDetail # ""

\* the draft without what the two flags and the two names hold
WithoutPartners(data) ==
    [ data EXCEPT !.partnering = FALSE, !.partnerName = "",
                  !.thirdParty = FALSE, !.thirdPartyName = "" ]

\* C26: switching partnering or thirdParty -- on or off -- and the commits
\* that follow leave partnerName and thirdPartyName as they were, and a submit
\* is accepted or refused regardless of the flags and names, the accepted
\* record carrying them as the draft holds them.
C26_HiddenNameKept ==
    [][ /\ \A k \in Kinds : values'[nameField(k)] = values[nameField(k)]
        /\ submits' # submits =>
              IF campaignFormSchema(WithoutPartners(values)) = NoErrors
              THEN accepted' = Append(accepted, values)
              ELSE accepted' = accepted ]_vars

\* partnering was switched from yes to no and the draft submitted: the
\* accepted record has partnering false and the partner name it had
C26_Witness ==
    /\ lastSet = [ field |-> "partnering", changed |-> TRUE ]
    /\ accepted # << >>
    /\ ~accepted[Len(accepted)].partnering
    /\ accepted[Len(accepted)].partnerName = "Acme"

\* the rows are in ascending order of name under the database's collation
AscendingRows(rows) ==
    \A i, j \in 1..Len(rows) : i < j => NameRank(rows[i].name) <= NameRank(rows[j].name)

\* the options are in ascending order of name under the locale's collation
AscendingOptions(rows) ==
    \A i, j \in 1..Len(rows) : i < j => localeCompare(rows[i].name, rows[j].name) <= 0

\* C21: a list answer holds every row of the kind's table, once, in ascending
\* order of name; and in every state -- after a list response, after the
\* append of a created entity -- the options of each name select are the
\* cached rows in ascending order of name.
C21_OptionsAscending ==
    /\ [][ \A k \in Kinds :
              (fetch[k].pc = "sent" /\ fetch'[k].pc = "answered") =>
                /\ Range(fetch'[k].data) = table[k]
                /\ Len(fetch'[k].data) = Cardinality(table[k])
                /\ AscendingRows(fetch'[k].data) ]_vars
    /\ [](\A k \in Kinds :
              /\ AscendingOptions(shownOptions(k))
              /\ Range(shownOptions(k)) = Range(cache[k])
              /\ Len(shownOptions(k)) = Len(cache[k]))

\* right after the append of the created "acme" behind the fetched "Acme":
\* the cache is out of order, the options are not
C21_Witness ==
    \E k \in Kinds :
        /\ Len(cache[k]) = 2
        /\ cache[k][1].name = "Acme" /\ cache[k][2].name = "acme"
        /\ shownOptions(k)[1].name = "acme" /\ shownOptions(k)[2].name = "Acme"
        /\ fetch[k].pc = "sent"

\* C28: when a create from the modal succeeds the modal closes, the typed
\* name is cleared and the assignment of the created name is scheduled; when
\* the scheduled assignment runs it writes the name whatever the flag and the
\* name field hold by then; and it does run: the name field comes to hold
\* the created name.
C28_CreatedNameAssigned ==
    /\ [][ /\ \A k \in Kinds :
                (req[k].pc = "done" /\ apiRequestOk(req[k].status)
                    /\ req'[k].pc = "idle") =>
                  /\ modal'[k] = [ show |-> FALSE, newName |-> "" ]
                  /\ [ kind |-> k, name |-> req[k].row.name ] \in timers'
            /\ \A t \in timers :
                t \notin timers' => values'[nameField(t.kind)] = t.name ]_vars
    /\ \A k \in Kinds :
          ([ kind |-> k, name |-> "acme" ] \in timers) ~> (values[nameField(k)] = "acme")

\* the created name was assigned after the user had switched partnering off
\* and before the form rendered again
C28_Witness ==
    /\ timers = { }
    /\ ~values.partnering /\ rendered.partnering
    /\ values.partnerName = "acme" /\ rendered.partnerName # "acme"
    /\ ~modal["partner"].show /\ modal["partner"].newName = ""

\* C30: a create request whose handling threw an Error -- the schema's, the
\* database's in the existence check or in the insert -- is answered 400 with
\* the Error's message; it is answered 500 exactly when the value thrown is no
\* Error; either way the tables stay as they were.  A check request and a
\* list request whose store call failed are answered 500.
C30_FailureResponses ==
    [][ /\ \A c \in Senders :
              (req[c].pc # "done" /\ req'[c].pc = "done") =>
                LET r == req'[c]
                IN  IF r.op = "create"
                    THEN /\ r.thrown \in { "ZodError: Required",
                                           "error: duplicate key value",
                                           "Error: Connection terminated" } =>
                               r.status = 400 /\ r.error = r.thrown /\ table' = table
                         /\ r.thrown = "<not an Error>" =>
                               r.status = 500 /\ table' = table
                         /\ r.status = 500 => r.thrown = "<not an Error>"
                         /\ r.thrown = Null => r.status \in { 201, 409 }
                    ELSE r.thrown # Null => r.status = 500
        /\ \A k \in Kinds :
              (fetch[k].pc = "sent" /\ fetch'[k].pc = "failed") =>
                fetch'[k].data.status = 500 /\ table' = table ]_vars

\* one create was refused 400 with the driver's message after the store
\* failed, another 500 after the store rejected with a value that is no
\* Error; no row was added
C30_Witness ==
    /\ CreateDone("other1") /\ req["other1"].status = 400
    /\ req["other1"].error = "Error: Connection terminated"
    /\ CreateDone("other2") /\ req["other2"].status = 500
    /\ req["other2"].thrown = "<not an Error>"
    /\ table = [ k \in Kinds |-> { } ]

====
